---------------------------- MODULE Spec2Model ----------------------------
(***************************************************************************)
(* Model of ViewerApplication::run (apps/gltf-viewer/ViewerApplication.cpp,*)
(* the revision with material binding, lines 398-960): glTF resource       *)
(* binding (textures, buffers, vertex array objects), the material binder, *)
(* the recursive scene traversal and the off-screen / interactive modes.   *)
(*                                                                         *)
(* Indices of the document are 0-based as in the source, -1 meaning        *)
(* "none"; TLA+ sequences are 1-based, so vector[i] is written At(v, i).   *)
(* OpenGL object names are positive, 0 is the default (no) object.         *)
(***************************************************************************)
EXTENDS Integers, Sequences, FiniteSets, TLC

(***************************************************************************)
(* Bounds of the documents and of the run.                                 *)
(***************************************************************************)
MaxMeshes == 3
MaxPrims == 3
MaxNodes == 3
MaxTextures == 2
MaxImages == 2
MaxFrames == 2
MaxShift == 2

At(v, i) == v[i + 1]

Range(s) == {s[i] : i \in 1..Len(s)}

RECURSIVE SumSeq(_)
SumSeq(s) == IF s = <<>> THEN 0 ELSE Head(s) + SumSeq(Tail(s))

SeqsUpTo(S, n) == UNION {[1..k -> S] : k \in 0..n}

(***************************************************************************)
(* The documents a run may load (tinygltf::Model).  Accessors, buffer      *)
(* views and buffers are one fixed table; meshes, nodes, materials,        *)
(* textures and images vary.                                               *)
(***************************************************************************)
Buffers == << [size |-> 128], [size |-> 64] >>

BufferViews ==
  << [buffer |-> 0, byteOffset |-> 0,  byteStride |-> 12, target |-> "GL_ARRAY_BUFFER"],
     [buffer |-> 1, byteOffset |-> 8,  byteStride |-> 0,  target |-> "GL_ARRAY_BUFFER"],
     [buffer |-> 0, byteOffset |-> 72, byteStride |-> 0,  target |-> "GL_ELEMENT_ARRAY_BUFFER"] >>

Accessors ==
  << [bufferView |-> 0, byteOffset |-> 0,  count |-> 3],
     [bufferView |-> 0, byteOffset |-> 36, count |-> 3],
     [bufferView |-> 1, byteOffset |-> 0,  count |-> 4],
     [bufferView |-> 2, byteOffset |-> 0,  count |-> 6],
     [bufferView |-> 1, byteOffset |-> 32, count |-> 4] >>

\* The attribute maps and index accessors primitives are built from.
PrimKinds ==
  << [attributes |-> [a \in {"POSITION", "NORMAL"} |-> IF a = "POSITION" THEN 0 ELSE 1],
      indices |-> 3],
     [attributes |-> [a \in {"POSITION", "TEXCOORD_0"} |-> IF a = "POSITION" THEN 2 ELSE 4],
      indices |-> -1],
     [attributes |-> [a \in {"POSITION"} |-> 0],
      indices |-> -1] >>

White == <<1, 1, 1, 1>>
Red == <<1, 0, 0, 1>>
Cyan == <<0, 1, 1, 1>>

\* Material 0 has no base-color texture; material t+1 uses texture t.
MkMaterials(nTex) ==
  [i \in 1..(nTex + 1) |->
     IF i = 1 THEN [baseColorTexture |-> -1, baseColorFactor |-> Red]
     ELSE [baseColorTexture |-> i - 2, baseColorFactor |-> Cyan]]

\* Primitive number k (counted over all meshes) of a document.
MkPrimitive(k, shift, nMat) ==
  LET kind == PrimKinds[((2 * k + shift) % 3) + 1]
  IN [attributes |-> kind.attributes,
      indices |-> kind.indices,
      material |-> ((k + shift) % (nMat + 1)) - 1,
      mode |-> "GL_TRIANGLES"]

MkMeshes(shape, shift, nMat) ==
  [m \in 1..Len(shape) |->
     [primitives |->
        [p \in 1..shape[m] |->
           MkPrimitive(SumSeq(SubSeq(shape, 1, m - 1)) + p - 1, shift, nMat)]]]

\* Children of node i, in increasing order, from the parent vector.
RECURSIVE ChildrenFrom(_, _, _)
ChildrenFrom(parents, i, j) ==
  IF j > Len(parents) THEN <<>>
  ELSE IF parents[j] = i THEN <<j - 1>> \o ChildrenFrom(parents, i, j + 1)
  ELSE ChildrenFrom(parents, i, j + 1)

MkNodes(parents, nodeMesh) ==
  [i \in 1..Len(parents) |->
     [mesh |-> nodeMesh[i], children |-> ChildrenFrom(parents, i - 1, 1)]]

MkDocument(shape, shift, parents, nodeMesh, texSources, nImg, defScene) ==
  [meshes |-> MkMeshes(shape, shift, Len(texSources) + 1),
   nodes |-> MkNodes(parents, nodeMesh),
   scenes |-> << [nodes |-> ChildrenFrom(parents, -1, 1)] >>,
   defaultScene |-> defScene,
   materials |-> MkMaterials(Len(texSources)),
   textures |-> [t \in 1..Len(texSources) |-> [source |-> texSources[t], sampler |-> -1]],
   samplers |-> <<>>,
   images |-> [i \in 1..nImg |-> [width |-> 1, height |-> 1, image |-> i - 1]],
   accessors |-> Accessors,
   bufferViews |-> BufferViews,
   buffers |-> Buffers]

MeshShapes == SeqsUpTo(1..MaxPrims, MaxMeshes)

\* Forests: the parent of node j is -1 (a root) or a node of smaller index.
ParentVectors ==
  {pv \in SeqsUpTo(-1..(MaxNodes - 2), MaxNodes) :
     \A j \in 1..Len(pv) : pv[j] < j - 1}

\* Textures over nImg images: every source is an image of the document.
TextureLayouts ==
  {tl \in [nImg : 0..MaxImages, src : SeqsUpTo(0..(MaxImages - 1), MaxTextures)] :
     \A t \in 1..Len(tl.src) : tl.src[t] < tl.nImg}

\* The document the families below vary: two meshes of 2 and 1 primitives, a
\* root with the second mesh and its child with the first, one texture.
BaseShape == <<2, 1>>
BaseParents == <<-1, 0>>
BaseNodeMesh == <<1, 0>>
BaseLayout == [nImg |-> 1, src |-> <<0>>]

\* Meshes vary; node i is a root and has mesh (number of meshes) - 1 - i.
MeshFamily ==
  {[shape |-> shape, shift |-> shift,
    parents |-> [i \in 1..Len(shape) |-> -1],
    nodeMesh |-> [i \in 1..Len(shape) |-> Len(shape) - i],
    layout |-> BaseLayout, defScene |-> ds] :
     shape \in MeshShapes, shift \in 0..MaxShift, ds \in {-1, 0}}

\* The forest varies; the meshes of the nodes are all the same (stride 0) or
\* go round -1, 0, 1 (stride 1).
NodeFamily ==
  {[shape |-> BaseShape, shift |-> 0,
    parents |-> pv,
    nodeMesh |-> [i \in 1..Len(pv) |->
                    (((i - 1) * stride + rot) % (Len(BaseShape) + 1)) - 1],
    layout |-> BaseLayout, defScene |-> ds] :
     pv \in ParentVectors, stride \in {0, 1}, rot \in 0..Len(BaseShape),
     ds \in {-1, 0}}

\* Textures, images and the materials of the primitives vary.
TextureFamily ==
  {[shape |-> BaseShape, shift |-> shift,
    parents |-> BaseParents, nodeMesh |-> BaseNodeMesh,
    layout |-> tl, defScene |-> ds] :
     tl \in TextureLayouts, shift \in 0..MaxShift, ds \in {-1, 0}}

DocumentParams == MeshFamily \cup NodeFamily \cup TextureFamily

BaseDocument ==
  MkDocument(BaseShape, 0, BaseParents, BaseNodeMesh, BaseLayout.src,
             BaseLayout.nImg, 0)

\* Samplers: one with its own values, one with a mipmap filter, one that
\* leaves both filters unset (tinygltf keeps -1 for an unset filter).
Samplers ==
  << [minFilter |-> "GL_NEAREST", magFilter |-> "GL_NEAREST",
      wrapS |-> "GL_CLAMP_TO_EDGE", wrapT |-> "GL_MIRRORED_REPEAT",
      wrapR |-> "GL_REPEAT"],
     [minFilter |-> "GL_LINEAR_MIPMAP_LINEAR", magFilter |-> "GL_LINEAR",
      wrapS |-> "GL_REPEAT", wrapT |-> "GL_CLAMP_TO_EDGE",
      wrapR |-> "GL_MIRRORED_REPEAT"],
     [minFilter |-> "-1", magFilter |-> "-1",
      wrapS |-> "GL_MIRRORED_REPEAT", wrapT |-> "GL_REPEAT",
      wrapR |-> "GL_CLAMP_TO_EDGE"] >>

\* Two textures of one image: the first without sampler, the second with
\* one of the samplers.
SamplerDocuments ==
  {[MkDocument(BaseShape, 0, BaseParents, BaseNodeMesh, <<0, 0>>, 1, 0)
      EXCEPT !.samplers = Samplers, !.textures[2].sampler = k] :
     k \in 0..(Len(Samplers) - 1)}

\* A forest whose lists are not in the order of the indices: the roots are
\* 4 and 0, node 0 has the children 2 and 1, node 2 has the child 3.
OrderDocument ==
  [BaseDocument EXCEPT
     !.nodes = << [mesh |-> 0, children |-> <<2, 1>>],
                  [mesh |-> 1, children |-> <<>>],
                  [mesh |-> 1, children |-> <<3>>],
                  [mesh |-> 0, children |-> <<>>],
                  [mesh |-> -1, children |-> <<>>] >>,
     !.scenes = << [nodes |-> <<4, 0>>] >>]

\* Two scenes, the second the default one: its root 0 has the child 1; node
\* 3 is the root of the other scene and node 2 is in no scene at all.
UnlistedDocument ==
  [BaseDocument EXCEPT
     !.nodes = << [mesh |-> 0, children |-> <<1>>],
                  [mesh |-> 1, children |-> <<>>],
                  [mesh |-> 0, children |-> <<>>],
                  [mesh |-> 1, children |-> <<>>] >>,
     !.scenes = << [nodes |-> <<3>>], [nodes |-> <<0>>] >>,
     !.defaultScene = 1]

Documents ==
  {MkDocument(dp.shape, dp.shift, dp.parents, dp.nodeMesh, dp.layout.src,
              dp.layout.nImg, dp.defScene) : dp \in DocumentParams}
  \cup SamplerDocuments \cup {OrderDocument, UnlistedDocument}

NoModel ==
  [meshes |-> <<>>, nodes |-> <<>>, scenes |-> <<>>, defaultScene |-> -1,
   materials |-> <<>>, textures |-> <<>>, samplers |-> <<>>, images |-> <<>>,
   accessors |-> <<>>, bufferViews |-> <<>>, buffers |-> <<>>]

NoOutcome == [ret |-> FALSE, warning |-> FALSE, error |-> FALSE]

\* Locations glGetUniformLocation gives for the two light uniforms: -1 when
\* the program has no such uniform.
LightLocations == {-1, 3}
IntensityLocations == {-1, 4}

\* What a run meets: the loader's result, warning and error texts (empty or
\* not), the document it filled in, the locations of the light uniforms, and
\* the widgets its user works.  Every document loads without warning into
\* the shipped program, before a user who leaves the light alone; the base
\* document also loads with a warning, into programs without the uniforms,
\* before a user who clicks the checkbox, moves a slider or edits the
\* colour; a failed load leaves the document empty.
Runs ==
  {[loader |-> [ret |-> TRUE, warning |-> FALSE, error |-> FALSE], model |-> d,
    lightDirectionLocation |-> 3, lightIntensityLocation |-> 4,
    widgets |-> {"none"}] :
     d \in Documents}
  \cup
  {[loader |-> [ret |-> TRUE, warning |-> w, error |-> FALSE],
    model |-> BaseDocument,
    lightDirectionLocation |-> ld, lightIntensityLocation |-> li,
    widgets |-> {"none", "Theta", "color", "checkbox"}] :
     w \in BOOLEAN, ld \in LightLocations, li \in IntensityLocations}
  \cup
  {[loader |-> [ret |-> FALSE, warning |-> w, error |-> e], model |-> NoModel,
    lightDirectionLocation |-> -1, lightIntensityLocation |-> -1,
    widgets |-> {"none"}] :
     w \in BOOLEAN, e \in BOOLEAN}

\* Documents that break the document's integrity: the root's mesh index is
\* one past the last mesh; the index accessor's buffer view has the target of
\* vertex data.  The loader checks neither.
OutOfRangeMeshDocument ==
  [BaseDocument EXCEPT !.nodes[1].mesh = Len(BaseDocument.meshes)]

WrongTargetDocument ==
  [BaseDocument EXCEPT !.bufferViews[3].target = "GL_ARRAY_BUFFER"]

MalformedDocuments == {OutOfRangeMeshDocument, WrongTargetDocument}

(***************************************************************************)
(* State of a run.                                                         *)
(***************************************************************************)
VARIABLES
  pc,                        \* position in run()
  ret,                       \* <<value returned by run()>>, <<>> before
  outputPath,                \* TRUE iff m_OutputPath is not empty
  model,                     \* the loaded tinygltf::Model
  textureObjects,            \* run's textureObjects
  whiteTexture,              \* run's whiteTexture (0 before glGenTextures)
  vertexBufferObjectList,    \* run's vertexBufferObjectList
  vertexAttributeObjectList, \* run's vertexAttributeObjectList
  meshVaoRangeList,          \* run's meshVaoRangeList
  glTextures,                \* texture objects of the context, by name
  glBuffers,                 \* buffer objects of the context, by name
  glVaos,                    \* vertex array objects of the context, by name
  gl,                        \* bindings and uniforms of the context
  isLightComingFromCamera,   \* the GUI toggle
  stack,                     \* activation records of drawNode
  rootPos,                   \* position in the loop over the scene's roots
  draws,                     \* draw calls issued since the last glClear
  visits,                    \* nodes visited since the last glClear
  calls,                     \* how often run has called its collaborators
  loader,                    \* what the glTF loader reported
  lightDirectionLocation,    \* run's lightDirectionLocation
  lightIntensityLocation,    \* run's lightIntensityLocation
  widgets,                   \* the GUI widgets the user of this run works
  lightDirection,            \* run's lightDirection
  lightIntensity,            \* run's lightIntensity
  trace                      \* GL calls of drawScene since the last glClear

resources ==
  <<textureObjects, whiteTexture, vertexBufferObjectList,
    vertexAttributeObjectList, meshVaoRangeList>>

glObjects == <<glTextures, glBuffers, glVaos>>

frame == <<stack, rootPos, draws, visits, trace>>

inputs == <<loader, lightDirectionLocation, lightIntensityLocation, widgets>>

gui == <<isLightComingFromCamera, lightDirection, lightIntensity>>

vars ==
  <<pc, ret, outputPath, model, resources, glObjects, gl, gui, frame, calls,
    inputs>>

\* Names glGen* returns when the context holds n objects of the kind.
GenNames(n, count) == [i \in 1..count |-> n + i]

(***************************************************************************)
(* createTextureObjects                                                    *)
(***************************************************************************)
\* Mutant of defaultSampler: the filters of the default sampler are nearest.
defaultSamplerNearest ==
  [minFilter |-> "GL_NEAREST", magFilter |-> "GL_NEAREST",
   wrapS |-> "GL_REPEAT", wrapT |-> "GL_REPEAT", wrapR |-> "GL_REPEAT"]

defaultSampler ==
  [minFilter |-> "GL_LINEAR", magFilter |-> "GL_LINEAR",
   wrapS |-> "GL_REPEAT", wrapT |-> "GL_REPEAT", wrapR |-> "GL_REPEAT"]

MipmapFilters ==
  {"GL_NEAREST_MIPMAP_NEAREST", "GL_NEAREST_MIPMAP_LINEAR",
   "GL_LINEAR_MIPMAP_NEAREST", "GL_LINEAR_MIPMAP_LINEAR"}

\* The texture object configured by iteration i of the loop.
TextureObjectOf(mdl, i) ==
  LET texture == At(mdl.textures, i)
      image == At(mdl.images, texture.source)
      sampler == IF texture.sampler >= 0 THEN At(mdl.samplers, texture.sampler)
                 ELSE defaultSampler
  IN [pixels |-> [from |-> "image", index |-> image.image],
      width |-> image.width, height |-> image.height,
      mipmaps |-> sampler.minFilter \in MipmapFilters,
      minFilter |-> IF sampler.minFilter # "-1" THEN sampler.minFilter ELSE "GL_LINEAR",
      magFilter |-> IF sampler.magFilter # "-1" THEN sampler.magFilter ELSE "GL_LINEAR",
      wrapR |-> sampler.wrapR, wrapS |-> sampler.wrapS, wrapT |-> sampler.wrapT]

\* Number of texture objects the function generates.
TextureListSize(mdl) == Len(mdl.textures)

createTextureObjects(mdl) ==
  [i \in 1..TextureListSize(mdl) |-> TextureObjectOf(mdl, i - 1)]

\* The fallback texture of run.
WhiteTextureObject ==
  [pixels |-> [from |-> "white", index |-> -1],
   width |-> 2, height |-> 2, mipmaps |-> FALSE,
   minFilter |-> "GL_LINEAR", magFilter |-> "GL_LINEAR",
   wrapR |-> "GL_REPEAT", wrapS |-> "GL_REPEAT", wrapT |-> "GL_REPEAT"]

(***************************************************************************)
(* createBufferObjects                                                     *)
(***************************************************************************)
createBufferObjects(mdl) ==
  [b \in 1..Len(mdl.buffers) |-> [data |-> b - 1, size |-> mdl.buffers[b].size]]

(***************************************************************************)
(* createVertexArrayObjects                                                *)
(***************************************************************************)
attributeList ==
  << [NAME |-> "POSITION", INDEX |-> 0],
     [NAME |-> "NORMAL", INDEX |-> 1],
     [NAME |-> "TEXCOORD_0", INDEX |-> 2] >>

\* meshIndexToVaoRange after the resize that precedes the loop over meshes.
ResizedVaoRanges(mdl) ==
  [m \in 1..Len(mdl.meshes) |-> [begin |-> 0, count |-> 0]]

\* Mutant of VaoOf: the pointers leave out the offset of the buffer view and
\* the element buffer is bound to the default object.
VaoOfAccessorOffsetOnly(mdl, bufferObjects, m, primitiveId) ==
  LET primitive == At(At(mdl.meshes, m).primitives, primitiveId)
      found == {a \in 1..Len(attributeList) :
                  attributeList[a].NAME \in DOMAIN primitive.attributes}
      pointer(a) ==
        LET accessor == At(mdl.accessors, primitive.attributes[attributeList[a].NAME])
            bufferView == At(mdl.bufferViews, accessor.bufferView)
        IN [buffer |-> At(bufferObjects, bufferView.buffer),
            byteOffset |-> accessor.byteOffset,
            stride |-> bufferView.byteStride]
  IN [mesh |-> m, primitive |-> primitiveId,
      attribs |-> [slot \in {attributeList[a].INDEX : a \in found} |->
                     pointer(CHOOSE a \in found : attributeList[a].INDEX = slot)],
      elementBuffer |-> 0]

\* The vertex array object configured for primitive primitiveId of mesh m.
VaoOf(mdl, bufferObjects, m, primitiveId) ==
  LET primitive == At(At(mdl.meshes, m).primitives, primitiveId)
      found == {a \in 1..Len(attributeList) :
                  attributeList[a].NAME \in DOMAIN primitive.attributes}
      pointer(a) ==
        LET accessor == At(mdl.accessors, primitive.attributes[attributeList[a].NAME])
            bufferView == At(mdl.bufferViews, accessor.bufferView)
        IN [buffer |-> At(bufferObjects, bufferView.buffer),
            byteOffset |-> accessor.byteOffset + bufferView.byteOffset,
            stride |-> bufferView.byteStride]
      indexBuffer ==
        IF primitive.indices >= 0
        THEN At(bufferObjects,
                At(mdl.bufferViews, At(mdl.accessors, primitive.indices).bufferView).buffer)
        ELSE 0
  IN [mesh |-> m, primitive |-> primitiveId,
      attribs |-> [slot \in {attributeList[a].INDEX : a \in found} |->
                     pointer(CHOOSE a \in found : attributeList[a].INDEX = slot)],
      elementBuffer |-> indexBuffer]

\* The loop over the meshes from mesh m on: acc.list is vertexArrayObjectList,
\* acc.ranges is meshIndexToVaoRange, acc.vaos the objects configured so far.
RECURSIVE VaoLoop(_, _, _, _, _)
VaoLoop(mdl, bufferObjects, firstName, m, acc) ==
  IF m >= Len(mdl.meshes) THEN acc
  ELSE
    LET oldSize == Len(acc.list)
        vaoRange == [begin |-> oldSize, count |-> Len(At(mdl.meshes, m).primitives)]
    IN VaoLoop(mdl, bufferObjects, firstName, m + 1,
         [list |-> acc.list \o [i \in 1..vaoRange.count |-> firstName + oldSize + i],
          ranges |-> Append(acc.ranges, vaoRange),
          vaos |-> acc.vaos \o
                   [i \in 1..vaoRange.count |-> VaoOf(mdl, bufferObjects, m, i - 1)]])

createVertexArrayObjects(mdl, bufferObjects, firstName) ==
  VaoLoop(mdl, bufferObjects, firstName, 0,
          [list |-> <<>>, ranges |-> ResizedVaoRanges(mdl), vaos |-> <<>>])

(***************************************************************************)
(* Matrices are words over the transforms of the run: the product is       *)
(* concatenation, the identity the empty word.                             *)
(***************************************************************************)
Identity == <<>>
viewMatrix == <<-1>>
projMatrix == <<-2>>
ZeroMatrix == <<-3>>

Mul(a, b) == a \o b

getLocalToWorldMatrix(nodeIdx, parentMatrix) == Mul(parentMatrix, <<nodeIdx>>)

(***************************************************************************)
(* The context before run touches it.                                      *)
(***************************************************************************)
InitialContext ==
  [activeTexture |-> 0, texture2D |-> 0, arrayBuffer |-> 0, vertexArray |-> 0,
   depthTest |-> FALSE, programInUse |-> FALSE,
   uBaseColorTexture |-> 0, uBaseColorFactor |-> <<0, 0, 0, 0>>,
   uModelViewMatrix |-> ZeroMatrix, uModelViewProjMatrix |-> ZeroMatrix,
   uNormalMatrix |-> [transposeInverse |-> ZeroMatrix],
   uLightDirection |-> <<"zero">>, uLightIntensity |-> "zero"]

(***************************************************************************)
(* bindMaterial                                                            *)
(***************************************************************************)
\* The values a read of textureObjects[source] can give; past the end of the
\* vector the read is out of bounds and gives any name.
TextureObjectAt(texObjs, source, names) ==
  IF source < Len(texObjs) THEN {At(texObjs, source)} ELSE 0..names

\* The contexts bindMaterial(materialIndex) can leave, from context g.
bindMaterial(g, mdl, texObjs, whiteTex, names, materialIndex) ==
  IF materialIndex >= 0
  THEN LET material == At(mdl.materials, materialIndex)
       IN IF material.baseColorTexture >= 0
          THEN LET texture == At(mdl.textures, material.baseColorTexture)
               IN {[g EXCEPT !.activeTexture = 0,
                             !.texture2D = n,
                             !.uBaseColorTexture = 0,
                             !.uBaseColorFactor = material.baseColorFactor] :
                     n \in TextureObjectAt(texObjs, texture.source, names)}
          ELSE {[g EXCEPT !.activeTexture = 0,
                          !.texture2D = whiteTex,
                          !.uBaseColorTexture = 0,
                          !.uBaseColorFactor = White]}
  ELSE {g}

(***************************************************************************)
(* drawScene and drawNode                                                  *)
(***************************************************************************)
\* Mutant of SceneRoots: without a default scene, the first scene is drawn.
SceneRootsFallback(mdl) ==
  At(mdl.scenes, IF mdl.defaultScene >= 0 THEN mdl.defaultScene ELSE 0).nodes

\* The nodes the loop at the end of drawScene calls drawNode for.
SceneRoots(mdl) ==
  IF mdl.defaultScene >= 0 THEN At(mdl.scenes, mdl.defaultScene).nodes ELSE <<>>

\* std::map iterates its keys in increasing order.
AttributeOrder == <<"NORMAL", "POSITION", "TEXCOORD_0">>

FirstAttribute(attributes) ==
  attributes[AttributeOrder[CHOOSE i \in 1..Len(AttributeOrder) :
     /\ AttributeOrder[i] \in DOMAIN attributes
     /\ \A j \in 1..(i - 1) : AttributeOrder[j] \notin DOMAIN attributes]]

\* Mutant of DrawCall: the index accessor is ignored.
DrawCallArraysOnly(mdl, primitive) ==
  [call |-> "glDrawArrays", mode |-> primitive.mode,
   count |-> At(mdl.accessors, FirstAttribute(primitive.attributes)).count,
   byteOffset |-> 0]

\* The draw call of a primitive.
DrawCall(mdl, primitive) ==
  IF primitive.indices >= 0
  THEN LET accessor == At(mdl.accessors, primitive.indices)
           bufferView == At(mdl.bufferViews, accessor.bufferView)
       IN [call |-> "glDrawElements", mode |-> primitive.mode,
           count |-> accessor.count,
           byteOffset |-> accessor.byteOffset + bufferView.byteOffset]
  ELSE LET accessor == At(mdl.accessors, FirstAttribute(primitive.attributes))
       IN [call |-> "glDrawArrays", mode |-> primitive.mode,
           count |-> accessor.count, byteOffset |-> 0]

\* The element of vertexAttributeObjectList bound for primitive primIdx of
\* mesh meshIdx.
PrimitiveVao(vaoList, ranges, meshIdx, primIdx) ==
  At(vaoList, At(ranges, meshIdx).begin + primIdx)

\* Where drawNode continues once primIdx primitives of the node are drawn.
AfterPrimitive(mdl, rec, primIdx) ==
  IF primIdx < Len(At(mdl.meshes, rec.mesh).primitives)
  THEN [rec EXCEPT !.at = "primitives", !.primIdx = primIdx]
  ELSE [rec EXCEPT !.at = "children", !.primIdx = primIdx]

Top == stack[Len(stack)]

SetTop(rec) == [stack EXCEPT ![Len(stack)] = rec]

NewRecord(nodeIdx, parentMatrix) ==
  [nodeIdx |-> nodeIdx, parentMatrix |-> parentMatrix,
   nodeModelMatrix |-> Identity, mesh |-> -1,
   at |-> "entry", primIdx |-> 0, childPos |-> 0]

(***************************************************************************)
(* run                                                                     *)
(***************************************************************************)
NoCalls ==
  [drawScene |-> 0, renderToImage |-> 0, flipImageYAxis |-> 0, writePng |-> 0,
   frames |-> 0, pollEvents |-> 0, cameraUpdate |-> 0, swapBuffers |-> 0]

Init ==
  /\ pc = "load"
  /\ ret = <<>>
  /\ outputPath \in BOOLEAN
  /\ model = NoModel
  /\ textureObjects = <<>>
  /\ whiteTexture = 0
  /\ vertexBufferObjectList = <<>>
  /\ vertexAttributeObjectList = <<>>
  /\ meshVaoRangeList = <<>>
  /\ glTextures = <<>>
  /\ glBuffers = <<>>
  /\ glVaos = <<>>
  /\ gl = InitialContext
  /\ isLightComingFromCamera = FALSE
  /\ stack = <<>>
  /\ rootPos = 0
  /\ draws = <<>>
  /\ visits = <<>>
  /\ calls = NoCalls
  /\ loader = NoOutcome
  /\ lightDirectionLocation = -1
  /\ lightIntensityLocation = -1
  /\ widgets = {"none"}
  /\ lightDirection = "(1,1,1)"
  /\ lightIntensity = "(1,1,1)"
  /\ trace = <<>>

\* Mutant of loadGltfFile: the result of the loader is ignored.
loadGltfFileIgnoringResult(o) == TRUE

\* The value loadGltfFile returns when the loader reports o.
loadGltfFile(o) == o.ret

\* loadGltfFile returns true; run looks up the uniform locations.
LoadGltfFile ==
  /\ pc = "load"
  /\ \E r \in Runs :
       /\ loadGltfFile(r.loader)
       /\ model' = r.model
       /\ loader' = r.loader
       /\ lightDirectionLocation' = r.lightDirectionLocation
       /\ lightIntensityLocation' = r.lightIntensityLocation
       /\ widgets' = r.widgets
  /\ pc' = "createTextureObjects"
  /\ UNCHANGED <<ret, outputPath, resources, glObjects, gl, gui, frame, calls>>

\* loadGltfFile returns false: run returns -1.
LoadFails ==
  /\ pc = "load"
  /\ \E r \in Runs :
       /\ ~loadGltfFile(r.loader)
       /\ model' = r.model
       /\ loader' = r.loader
  /\ pc' = "done"
  /\ ret' = <<-1>>
  /\ UNCHANGED <<outputPath, resources, glObjects, gl, gui, frame, calls,
                 lightDirectionLocation, lightIntensityLocation, widgets>>

CreateTextureObjects ==
  /\ pc = "createTextureObjects"
  /\ textureObjects' = GenNames(Len(glTextures), TextureListSize(model))
  /\ glTextures' = glTextures \o createTextureObjects(model)
  /\ gl' = [gl EXCEPT !.texture2D = 0]
  /\ pc' = "whiteTexture"
  /\ UNCHANGED <<inputs, ret, outputPath, model, whiteTexture, vertexBufferObjectList,
                 vertexAttributeObjectList, meshVaoRangeList, glBuffers, glVaos,
                 gui, frame, calls>>

CreateWhiteTexture ==
  /\ pc = "whiteTexture"
  /\ whiteTexture' = Len(glTextures) + 1
  /\ glTextures' = Append(glTextures, WhiteTextureObject)
  /\ gl' = [gl EXCEPT !.texture2D = 0]
  /\ pc' = "createBufferObjects"
  /\ UNCHANGED <<inputs, ret, outputPath, model, textureObjects, vertexBufferObjectList,
                 vertexAttributeObjectList, meshVaoRangeList, glBuffers, glVaos,
                 gui, frame, calls>>

CreateBufferObjects ==
  /\ pc = "createBufferObjects"
  /\ vertexBufferObjectList' = GenNames(Len(glBuffers), Len(model.buffers))
  /\ glBuffers' = glBuffers \o createBufferObjects(model)
  /\ gl' = [gl EXCEPT !.arrayBuffer = 0]
  /\ pc' = "createVertexArrayObjects"
  /\ UNCHANGED <<inputs, ret, outputPath, model, textureObjects, whiteTexture,
                 vertexAttributeObjectList, meshVaoRangeList, glTextures, glVaos,
                 gui, frame, calls>>

\* assert(GL_ELEMENT_ARRAY_BUFFER == bufferView.target) fails for some
\* primitive of the document.
AssertionFails(mdl) ==
  \E m \in 1..Len(mdl.meshes) : \E q \in 1..Len(mdl.meshes[m].primitives) :
    LET primitive == mdl.meshes[m].primitives[q]
    IN /\ primitive.indices >= 0
       /\ At(mdl.bufferViews, At(mdl.accessors, primitive.indices).bufferView).target
            # "GL_ELEMENT_ARRAY_BUFFER"

\* A failing assert ends the process in a build with assertions and does
\* nothing in a build with NDEBUG.
CreateVertexArrayObjects ==
  /\ pc = "createVertexArrayObjects"
  /\ \E aborts \in (IF AssertionFails(model) THEN BOOLEAN ELSE {FALSE}) :
       IF aborts
       THEN /\ pc' = "aborted"
            /\ UNCHANGED <<vertexAttributeObjectList, meshVaoRangeList, glVaos, gl>>
       ELSE /\ LET r == createVertexArrayObjects(model, vertexBufferObjectList,
                                                 Len(glVaos))
               IN /\ vertexAttributeObjectList' = r.list
                  /\ meshVaoRangeList' = r.ranges
                  /\ glVaos' = glVaos \o r.vaos
            /\ gl' = [gl EXCEPT !.arrayBuffer = 0, !.vertexArray = 0]
            /\ pc' = "setup"
  /\ UNCHANGED <<inputs, ret, outputPath, model, textureObjects, whiteTexture,
                 vertexBufferObjectList, glTextures, glBuffers,
                 gui, frame, calls>>

\* Mutant of AfterSetup: the test of m_OutputPath is inverted.
AfterSetupInverted(out) == IF out THEN "loop" ELSE "renderToImage"

\* Where run goes after the setup: the test of m_OutputPath.
AfterSetup(out) == IF out THEN "renderToImage" ELSE "loop"

\* glEnable(GL_DEPTH_TEST), glslProgram.use(), then the test of m_OutputPath.
SetupRendering ==
  /\ pc = "setup"
  /\ gl' = [gl EXCEPT !.depthTest = TRUE, !.programInUse = TRUE]
  /\ pc' = AfterSetup(outputPath)
  /\ UNCHANGED <<inputs, ret, outputPath, model, resources, glObjects,
                 gui, frame, calls>>

\* renderToImage calls the function it is given, which calls drawScene.
RenderToImage ==
  /\ pc = "renderToImage"
  /\ calls' = [calls EXCEPT !.renderToImage = @ + 1]
  /\ pc' = "drawScene"
  /\ UNCHANGED <<inputs, ret, outputPath, model, resources, glObjects, gl,
                 gui, frame>>

\* The test of the frame loop finds the window closed.
LoopExit ==
  /\ pc = "loop"
  /\ pc' = "done"
  /\ ret' = <<0>>
  /\ UNCHANGED <<inputs, outputPath, model, resources, glObjects, gl,
                 gui, frame, calls>>

\* The test of the frame loop finds the window open: one more iteration.
LoopIterate ==
  /\ pc = "loop"
  /\ calls.frames < MaxFrames
  /\ calls' = [calls EXCEPT !.frames = @ + 1]
  /\ pc' = "drawScene"
  /\ UNCHANGED <<inputs, ret, outputPath, model, resources, glObjects, gl,
                 gui, frame>>

\* One GL call of drawScene: which uniform upload or draw, during the
\* how-manieth drawNode call of the frame (0: before the first), with what.
Event(op, visit, value) == [op |-> op, visit |-> visit, value |-> value]

\* Mutant of SetLightUniforms: the direction is uploaded as if the toggle
\* were always off.
SetLightUniformsWorldOnly(g, dirLocation, intLocation, fromCamera, direction, intensity) ==
  LET viewLightDirection == <<"view", direction>>
  IN [gl |-> [g EXCEPT !.uLightDirection =
                          IF dirLocation >= 0 THEN viewLightDirection ELSE @,
                        !.uLightIntensity =
                          IF intLocation >= 0 THEN intensity ELSE @],
      events |->
        (IF dirLocation >= 0
         THEN <<Event("uLightDirection", 0, viewLightDirection)>> ELSE <<>>)
        \o (IF intLocation >= 0
            THEN <<Event("uLightIntensity", 0, <<intensity>>)>> ELSE <<>>)]

\* The light uniforms at the head of drawScene: the context after them and
\* the uploads made.  The direction is the constant (0,0,1) when the light
\* comes from the camera, else the normalised lightDirection in view space.
SetLightUniforms(g, dirLocation, intLocation, fromCamera, direction, intensity) ==
  LET lightCamera == <<"camera", "(0,0,1)">>
      viewLightDirection == <<"view", direction>>
      uploaded == IF fromCamera THEN lightCamera ELSE viewLightDirection
  IN [gl |-> [g EXCEPT !.uLightDirection =
                          IF dirLocation >= 0 THEN uploaded ELSE @,
                        !.uLightIntensity =
                          IF intLocation >= 0 THEN intensity ELSE @],
      events |->
        (IF dirLocation >= 0
         THEN <<Event("uLightDirection", 0, uploaded)>> ELSE <<>>)
        \o (IF intLocation >= 0
            THEN <<Event("uLightIntensity", 0, <<intensity>>)>> ELSE <<>>)]

\* Mutant of UploadMatrices: the model-view matrix is uploaded a second time
\* after the other two.
UploadMatricesTwice(g, visit, modelViewMatrix) ==
  [gl |-> [g EXCEPT
             !.uModelViewMatrix = modelViewMatrix,
             !.uModelViewProjMatrix = Mul(projMatrix, modelViewMatrix),
             !.uNormalMatrix = [transposeInverse |-> modelViewMatrix]],
   events |-> <<Event("uModelViewMatrix", visit, modelViewMatrix),
                Event("uModelViewProjMatrix", visit,
                      Mul(projMatrix, modelViewMatrix)),
                Event("uNormalMatrix", visit, modelViewMatrix),
                Event("uModelViewMatrix", visit, modelViewMatrix)>>]

\* The three glUniformMatrix4fv calls of a node that has a mesh.
UploadMatrices(g, visit, modelViewMatrix) ==
  [gl |-> [g EXCEPT
             !.uModelViewMatrix = modelViewMatrix,
             !.uModelViewProjMatrix = Mul(projMatrix, modelViewMatrix),
             !.uNormalMatrix = [transposeInverse |-> modelViewMatrix]],
   events |-> <<Event("uModelViewMatrix", visit, modelViewMatrix),
                Event("uModelViewProjMatrix", visit,
                      Mul(projMatrix, modelViewMatrix)),
                Event("uNormalMatrix", visit, modelViewMatrix)>>]

\* Mutant of DrawSceneBegin: the white texture is created in every frame.
DrawSceneBeginAllocating ==
  /\ pc = "drawScene"
  /\ calls' = [calls EXCEPT !.drawScene = @ + 1]
  /\ draws' = <<>>
  /\ visits' = <<>>
  /\ whiteTexture' = Len(glTextures) + 1
  /\ glTextures' = Append(glTextures, WhiteTextureObject)
  /\ LET lit == SetLightUniforms(gl, lightDirectionLocation,
                                 lightIntensityLocation, isLightComingFromCamera,
                                 lightDirection, lightIntensity)
     IN /\ gl' = lit.gl
        /\ trace' = lit.events
  /\ rootPos' = 0
  /\ stack' = <<>>
  /\ pc' = "roots"
  /\ UNCHANGED <<inputs, ret, outputPath, model, textureObjects, vertexBufferObjectList,
                 vertexAttributeObjectList, meshVaoRangeList, glBuffers, glVaos,
                 gui>>

\* drawScene up to the loop over the roots: clear and light uniforms.
DrawSceneBegin ==
  /\ pc = "drawScene"
  /\ calls' = [calls EXCEPT !.drawScene = @ + 1]
  /\ draws' = <<>>
  /\ visits' = <<>>
  /\ LET lit == SetLightUniforms(gl, lightDirectionLocation,
                                 lightIntensityLocation, isLightComingFromCamera,
                                 lightDirection, lightIntensity)
     IN /\ gl' = lit.gl
        /\ trace' = lit.events
  /\ rootPos' = 0
  /\ stack' = <<>>
  /\ pc' = "roots"
  /\ UNCHANGED <<inputs, ret, outputPath, model, resources, glObjects,
                 gui>>

\* drawNode(nodeId, glm::mat4(1)) for the next root of the default scene.
DrawRoot ==
  /\ pc = "roots"
  /\ stack = <<>>
  /\ rootPos < Len(SceneRoots(model))
  /\ stack' = <<NewRecord(At(SceneRoots(model), rootPos), Identity)>>
  /\ rootPos' = rootPos + 1
  /\ UNCHANGED <<inputs, pc, ret, outputPath, model, resources, glObjects, gl,
                 gui, draws, visits, calls, trace>>

\* What model.meshes[meshIdx] gives in drawNode.  An index past the end is
\* undefined behaviour: the process crashes, or the memory read looks like a
\* mesh without primitives or like one of the document's meshes.
MeshRead(mdl, meshIdx) ==
  IF meshIdx < Len(mdl.meshes)
  THEN {[crash |-> FALSE, mesh |-> meshIdx]}
  ELSE {[crash |-> TRUE, mesh |-> -1], [crash |-> FALSE, mesh |-> -1]}
       \cup {[crash |-> FALSE, mesh |-> m] : m \in 0..(Len(mdl.meshes) - 1)}

\* drawNode from its entry to the loop over the primitives.
DrawNodeEnter ==
  /\ pc = "roots"
  /\ stack # <<>>
  /\ Top.at = "entry"
  /\ LET node == At(model.nodes, Top.nodeIdx)
         nodeModelMatrix == getLocalToWorldMatrix(Top.nodeIdx, Top.parentMatrix)
         modelViewMatrix == Mul(viewMatrix, nodeModelMatrix)
         rec == [Top EXCEPT !.nodeModelMatrix = nodeModelMatrix, !.mesh = node.mesh]
     IN /\ visits' = Append(visits, [nodeIdx |-> Top.nodeIdx,
                                     parentMatrix |-> Top.parentMatrix])
        /\ IF node.mesh >= 0
           THEN LET up == UploadMatrices(gl, Len(visits) + 1, modelViewMatrix)
                IN /\ gl' = up.gl
                   /\ trace' = trace \o up.events
                   /\ \E read \in MeshRead(model, node.mesh) :
                        IF read.crash
                        THEN pc' = "crashed" /\ stack' = stack
                        ELSE /\ pc' = pc
                             /\ stack' =
                                  IF read.mesh < 0
                                  THEN SetTop([rec EXCEPT !.at = "children"])
                                  ELSE SetTop(AfterPrimitive(model,
                                         [rec EXCEPT !.mesh = read.mesh], 0))
           ELSE /\ gl' = gl
                /\ trace' = trace
                /\ pc' = pc
                /\ stack' = SetTop([rec EXCEPT !.at = "children"])
  /\ UNCHANGED <<inputs, ret, outputPath, model, resources, glObjects,
                 gui, rootPos, draws, calls>>

\* One iteration of the loop over the primitives of the node's mesh.
DrawPrimitive ==
  /\ pc = "roots"
  /\ stack # <<>>
  /\ Top.at = "primitives"
  /\ LET mesh == At(model.meshes, Top.mesh)
         primitive == At(mesh.primitives, Top.primIdx)
         primitiveVao == PrimitiveVao(vertexAttributeObjectList, meshVaoRangeList,
                                      Top.mesh, Top.primIdx)
         call == DrawCall(model, primitive)
     IN \E g \in bindMaterial(gl, model, textureObjects, whiteTexture,
                              Len(glTextures), primitive.material) :
          /\ gl' = [g EXCEPT !.vertexArray = primitiveVao]
          /\ draws' = Append(draws,
               [nodeIdx |-> Top.nodeIdx, mesh |-> Top.mesh, primIdx |-> Top.primIdx,
                material |-> primitive.material,
                call |-> call.call, mode |-> call.mode, count |-> call.count,
                byteOffset |-> call.byteOffset,
                vertexArray |-> primitiveVao,
                texture2D |-> g.texture2D,
                uBaseColorFactor |-> g.uBaseColorFactor,
                uModelViewMatrix |-> g.uModelViewMatrix])
          /\ trace' = Append(trace, Event(call.call, Len(visits), <<>>))
  /\ stack' = SetTop(AfterPrimitive(model, Top, Top.primIdx + 1))
  /\ UNCHANGED <<inputs, pc, ret, outputPath, model, resources, glObjects,
                 gui, rootPos, visits, calls>>

\* Mutant of ChildAt: the children are taken from the last to the first.
ChildAtFromTheEnd(children, childPos) == At(children, Len(children) - 1 - childPos)

\* The child the loop over node.children is at.
ChildAt(children, childPos) == At(children, childPos)

\* Mutant of ChildParentMatrix: the child gets the matrix the node was
\* called with.
ChildParentMatrixOfCaller(rec) == rec.parentMatrix

\* The parent matrix drawNode passes to a child: its own nodeModelMatrix.
ChildParentMatrix(rec) == rec.nodeModelMatrix

\* Mutant of ChildrenDone: the loop over the children ends after the first.
ChildrenDoneAfterFirst(rec, children) == rec.childPos >= 1 \/ children = <<>>

\* The loop over node.children has gone through all of them.
ChildrenDone(rec, children) == rec.childPos = Len(children)

\* drawNode(childIdx, nodeModelMatrix) for the next child of the node.
DrawChild ==
  /\ pc = "roots"
  /\ stack # <<>>
  /\ Top.at = "children"
  /\ LET children == At(model.nodes, Top.nodeIdx).children
     IN /\ ~ChildrenDone(Top, children)
        /\ stack' = Append(SetTop([Top EXCEPT !.childPos = @ + 1]),
                           NewRecord(ChildAt(children, Top.childPos),
                                     ChildParentMatrix(Top)))
  /\ UNCHANGED <<inputs, pc, ret, outputPath, model, resources, glObjects, gl,
                 gui, rootPos, draws, visits, calls, trace>>

\* drawNode returns to its caller.
DrawNodeReturn ==
  /\ pc = "roots"
  /\ stack # <<>>
  /\ Top.at = "children"
  /\ ChildrenDone(Top, At(model.nodes, Top.nodeIdx).children)
  /\ stack' = SubSeq(stack, 1, Len(stack) - 1)
  /\ UNCHANGED <<inputs, pc, ret, outputPath, model, resources, glObjects, gl,
                 gui, rootPos, draws, visits, calls, trace>>

\* drawScene returns, to renderToImage or to the frame loop.
DrawSceneEnd ==
  /\ pc = "roots"
  /\ stack = <<>>
  /\ rootPos = Len(SceneRoots(model))
  /\ pc' = IF outputPath THEN "flipImageYAxis" ELSE "gui"
  /\ UNCHANGED <<inputs, ret, outputPath, model, resources, glObjects, gl,
                 gui, frame, calls>>

FlipImageYAxis ==
  /\ pc = "flipImageYAxis"
  /\ calls' = [calls EXCEPT !.flipImageYAxis = @ + 1]
  /\ pc' = "writePng"
  /\ UNCHANGED <<inputs, ret, outputPath, model, resources, glObjects, gl,
                 gui, frame>>

\* stbi_write_png, then return 0.
WritePng ==
  /\ pc = "writePng"
  /\ calls' = [calls EXCEPT !.writePng = @ + 1]
  /\ pc' = "done"
  /\ ret' = <<0>>
  /\ UNCHANGED <<inputs, outputPath, model, resources, glObjects, gl,
                 gui, frame>>

\* The GUI of a frame: the widget the user works, if any, changes its value.
\* A slider gives a new lightDirection, the colour or intensity field a new
\* lightIntensity, the checkbox flips the toggle.
GuiFrame ==
  /\ pc = "gui"
  /\ \E widget \in widgets :
       /\ lightDirection' =
            IF widget = "Theta" THEN "(sin t cos p, cos t, sin t sin p)"
                                ELSE lightDirection
       /\ lightIntensity' =
            IF widget = "color" THEN "lightColor * lightIntensityFactor"
                                ELSE lightIntensity
       /\ isLightComingFromCamera' =
            IF widget = "checkbox" THEN ~isLightComingFromCamera
                                   ELSE isLightComingFromCamera
  /\ pc' = "pollEvents"
  /\ UNCHANGED <<inputs, ret, outputPath, model, resources, glObjects, gl, frame, calls>>

\* glfwPollEvents, cameraController->update unless the GUI has the focus,
\* swapBuffers.
PollEvents ==
  /\ pc = "pollEvents"
  /\ \E guiHasFocus \in BOOLEAN :
       calls' = [calls EXCEPT !.pollEvents = @ + 1,
                              !.cameraUpdate = IF guiHasFocus THEN @ ELSE @ + 1,
                              !.swapBuffers = @ + 1]
  /\ pc' = "loop"
  /\ UNCHANGED <<inputs, ret, outputPath, model, resources, glObjects, gl,
                 gui, frame>>

Next ==
  \/ LoadGltfFile
  \/ LoadFails
  \/ CreateTextureObjects
  \/ CreateWhiteTexture
  \/ CreateBufferObjects
  \/ CreateVertexArrayObjects
  \/ SetupRendering
  \/ RenderToImage
  \/ LoopExit
  \/ LoopIterate
  \/ DrawSceneBegin
  \/ DrawRoot
  \/ DrawNodeEnter
  \/ DrawPrimitive
  \/ DrawChild
  \/ DrawNodeReturn
  \/ DrawSceneEnd
  \/ FlipImageYAxis
  \/ WritePng
  \/ GuiFrame
  \/ PollEvents

Spec == Init /\ [][Next]_vars

\* loadGltfFile succeeds with a document that breaks the integrity rules.
LoadMalformedGltfFile ==
  /\ pc = "load"
  /\ \E d \in MalformedDocuments :
       /\ model' = d
       /\ loader' = [ret |-> TRUE, warning |-> FALSE, error |-> FALSE]
       /\ loadGltfFile(loader')
  /\ lightDirectionLocation' = 3
  /\ lightIntensityLocation' = 4
  /\ widgets' = {"none"}
  /\ pc' = "createTextureObjects"
  /\ UNCHANGED <<ret, outputPath, resources, glObjects, gl, gui, frame, calls>>

NextAny == Next \/ LoadMalformedGltfFile

\* The runs over all documents the loader accepts, malformed ones included.
SpecAny == Init /\ [][NextAny]_vars

(***************************************************************************)
(* Properties                                                              *)
(***************************************************************************)
SetupPositions ==
  {"load", "createTextureObjects", "whiteTexture", "createBufferObjects",
   "createVertexArrayObjects"}

Loaded == pc # "load" /\ ret # <<-1>>

\* createVertexArrayObjects has returned.
VaosCreated == Loaded /\ pc \notin SetupPositions

PrimitiveCount(m) == Len(At(model.meshes, m).primitives)

RECURSIVE PrimitivesBefore(_)
PrimitivesBefore(m) ==
  IF m = 0 THEN 0 ELSE PrimitivesBefore(m - 1) + PrimitiveCount(m - 1)

\* C1: after createVertexArrayObjects the range list has one entry per mesh,
\* entry m being (primitives of meshes 0..m-1, primitives of mesh m).
C1_RangePerMesh ==
  VaosCreated =>
    /\ Len(meshVaoRangeList) = Len(model.meshes)
    /\ \A m \in 0..(Len(model.meshes) - 1) :
         At(meshVaoRangeList, m) =
           [begin |-> PrimitivesBefore(m), count |-> PrimitiveCount(m)]

\* C2: every draw of primitive p of mesh m binds the vertex array object that
\* createVertexArrayObjects configured from primitive p of mesh m.
C2_DrawBindsOwnVao ==
  \A i \in 1..Len(draws) :
    /\ draws[i].vertexArray \in 1..Len(glVaos)
    /\ glVaos[draws[i].vertexArray].mesh = draws[i].mesh
    /\ glVaos[draws[i].vertexArray].primitive = draws[i].primIdx

\* C3: a primitive without material is drawn with the white texture on unit 0
\* and base-color factor (1,1,1,1).
C3_NoMaterialIsWhite ==
  \A i \in 1..Len(draws) :
    draws[i].material < 0 =>
      /\ draws[i].texture2D = whiteTexture
      /\ draws[i].uBaseColorFactor = White

\* C4: a primitive whose material has no base-color texture is drawn with the
\* white texture on unit 0 and the material's own baseColorFactor.
C4_FactorOnly ==
  \A i \in 1..Len(draws) :
    (/\ draws[i].material >= 0
     /\ At(model.materials, draws[i].material).baseColorTexture < 0) =>
      /\ draws[i].texture2D = whiteTexture
      /\ draws[i].uBaseColorFactor =
           At(model.materials, draws[i].material).baseColorFactor

\* The image whose pixels texture object n holds, -1 for the white texture.
ImageOf(n) == glTextures[n].pixels.index

\* C5: one texture object per image, and a material with base-color texture t
\* is drawn with the pixels of image textures[t].source on unit 0.
C5_TexturePerImage ==
  /\ (Loaded /\ pc # "createTextureObjects") =>
       Len(textureObjects) = Len(model.images)
  /\ \A i \in 1..Len(draws) :
       (/\ draws[i].material >= 0
        /\ At(model.materials, draws[i].material).baseColorTexture >= 0) =>
         /\ draws[i].texture2D \in 1..Len(glTextures)
         /\ ImageOf(draws[i].texture2D) =
              At(model.textures,
                 At(model.materials, draws[i].material).baseColorTexture).source

\* drawScene has returned and nothing has run since.
AfterDrawScene == pc \in {"gui", "flipImageYAxis"}

\* C6: without a default scene drawScene visits no node and issues no draw,
\* and the run still ends with 0.
C6_NoSceneNoDraw ==
  (Loaded /\ model.defaultScene < 0) =>
    /\ draws = <<>>
    /\ visits = <<>>
    /\ stack = <<>>
    /\ pc = "done" => ret = <<0>>

C6_Witness ==
  /\ AfterDrawScene
  /\ model.defaultScene < 0
  /\ calls.drawScene >= 1
  /\ \E n \in 1..Len(model.nodes) : model.nodes[n].mesh >= 0

\* The draw calls one visit of node nodeIdx has to issue.
ExpectedDraws(nodeIdx) ==
  LET node == At(model.nodes, nodeIdx)
      primitives == IF node.mesh >= 0 THEN At(model.meshes, node.mesh).primitives
                    ELSE <<>>
  IN [p \in 1..Len(primitives) |->
        [nodeIdx |-> nodeIdx, primIdx |-> p - 1,
         call |-> IF primitives[p].indices >= 0 THEN "glDrawElements"
                  ELSE "glDrawArrays",
         count |-> IF primitives[p].indices >= 0
                   THEN At(model.accessors, primitives[p].indices).count
                   ELSE At(model.accessors,
                           FirstAttribute(primitives[p].attributes)).count]]

RECURSIVE ExpectedOfVisits(_)
ExpectedOfVisits(vs) ==
  IF vs = <<>> THEN <<>>
  ELSE ExpectedDraws(Head(vs).nodeIdx) \o ExpectedOfVisits(Tail(vs))

IssuedDraws ==
  [i \in 1..Len(draws) |->
     [nodeIdx |-> draws[i].nodeIdx, primIdx |-> draws[i].primIdx,
      call |-> draws[i].call, count |-> draws[i].count]]

\* The last visit is still in its loop over the primitives.
InPrimitives == stack # <<>> /\ Top.at = "primitives"

\* A document of one node with one mesh of one indexed primitive.
OneIndexedPrimitive ==
  /\ Len(model.nodes) = 1
  /\ Len(model.meshes) = 1
  /\ model.defaultScene >= 0
  /\ model.nodes[1].mesh = 0
  /\ Len(model.meshes[1].primitives) = 1
  /\ model.meshes[1].primitives[1].indices >= 0

\* C7: the draws of a frame are, visit by visit, one draw per primitive of the
\* visited node's mesh in document order, indexed with the index accessor's
\* count or else non-indexed with the first attribute accessor's count; one
\* node with one indexed primitive gives one indexed draw with the only vertex
\* array object.
C7_DrawPerPrimitive ==
  /\ Loaded =>
       IssuedDraws =
         IF InPrimitives
         THEN ExpectedOfVisits(SubSeq(visits, 1, Len(visits) - 1))
                \o SubSeq(ExpectedDraws(Top.nodeIdx), 1, Top.primIdx)
         ELSE ExpectedOfVisits(visits)
  /\ (AfterDrawScene /\ OneIndexedPrimitive) =>
       /\ Len(draws) = 1
       /\ draws[1].call = "glDrawElements"
       /\ vertexAttributeObjectList = <<draws[1].vertexArray>>

C7_Witness ==
  /\ AfterDrawScene
  /\ \E i \in 1..Len(draws) : draws[i].call = "glDrawElements"
  /\ \E i \in 1..Len(draws) : draws[i].call = "glDrawArrays"
  /\ \E v \in 1..Len(visits) : At(model.nodes, visits[v].nodeIdx).mesh < 0
  /\ Len(draws) >= 3

Live(names, objects) == Range(names) \subseteq 1..Len(objects)

\* Every object of the document has been created.
AllCreated ==
  /\ Len(textureObjects) = Len(model.textures)
  /\ Live(textureObjects, glTextures)
  /\ whiteTexture \in 1..Len(glTextures)
  /\ Len(vertexBufferObjectList) = Len(model.buffers)
  /\ Live(vertexBufferObjectList, glBuffers)
  /\ Len(vertexAttributeObjectList) = PrimitivesBefore(Len(model.meshes))
  /\ Live(vertexAttributeObjectList, glVaos)
  /\ Len(glTextures) = Len(model.textures) + 1
  /\ Len(glBuffers) = Len(model.buffers)
  /\ Len(glVaos) = Len(vertexAttributeObjectList)

\* C8: all objects exist when drawScene is called, and no step after the
\* binder passes changes the objects of the context or the lists of names.
C8_CreatedBeforeDrawing ==
  [][/\ calls'.drawScene > calls.drawScene => AllCreated
     /\ pc \notin SetupPositions => UNCHANGED <<inputs, glObjects, resources>>]_vars

C8_Witness ==
  /\ AfterDrawScene
  /\ calls.drawScene = 2
  /\ Len(draws) >= 2
  /\ Len(textureObjects) >= 1

\* C9: when run returns, every buffer, texture and vertex array object it
\* created has been released.
C9_ReleasedAtReturn ==
  pc = "done" =>
    /\ glTextures = <<>>
    /\ glBuffers = <<>>
    /\ glVaos = <<>>

\* C10: with an output path run calls drawScene once, then flips and writes the
\* image and returns 0, without any iteration of the frame loop, poll of
\* events or camera update.
C10_OffscreenOnce ==
  (outputPath /\ Loaded) =>
    /\ calls.frames = 0
    /\ calls.pollEvents = 0
    /\ calls.cameraUpdate = 0
    /\ calls.swapBuffers = 0
    /\ calls.drawScene <= 1
    /\ calls.flipImageYAxis = IF pc \in {"writePng", "done"} THEN 1 ELSE 0
    /\ calls.writePng = IF pc = "done" THEN 1 ELSE 0
    /\ pc \in {"flipImageYAxis", "writePng", "done"} => calls.drawScene = 1
    /\ pc = "done" => ret = <<0>>

C10_Witness ==
  /\ outputPath
  /\ pc = "done"
  /\ ret = <<0>>
  /\ calls.drawScene = 1
  /\ Len(draws) >= 1


(***************************************************************************)
(* C11: loading failures and loader warnings.                              *)
(***************************************************************************)

\* run has left the call of loadGltfFile.
LoadAttempted == pc # "load"

\* C11: when the loader fails, run is over with the value -1, no texture,
\* buffer or vertex-array object exists, drawScene was never called and no
\* iteration of the frame loop ran; when the loader succeeds, with or without
\* a warning, run goes on to the set-up and, if it returns, returns 0.
C11_LoadFailureStopsRun ==
  /\ (LoadAttempted /\ ~loader.ret) =>
       /\ pc = "done"
       /\ ret = <<-1>>
       /\ glTextures = <<>> /\ glBuffers = <<>> /\ glVaos = <<>>
       /\ textureObjects = <<>> /\ vertexBufferObjectList = <<>>
       /\ vertexAttributeObjectList = <<>>
       /\ calls = NoCalls
       /\ draws = <<>> /\ visits = <<>> /\ trace = <<>>
  /\ (LoadAttempted /\ loader.ret) =>
       /\ ret # <<-1>>
       /\ pc = "done" => ret = <<0>>
       /\ pc \notin SetupPositions => AllCreated

\* A run whose loader failed with an error text has returned.
C11_Witness == LoadAttempted /\ ~loader.ret /\ loader.error /\ pc = "done"

\* A run whose loader succeeded with a warning has drawn a primitive.
C11_WarnedRunDraws == loader.ret /\ loader.warning /\ draws # <<>>


(***************************************************************************)
(* C12: documents that break the integrity rules.                          *)
(***************************************************************************)

\* Every node's mesh index is a mesh of the document.
MeshIndicesInRange(mdl) ==
  \A n \in 1..Len(mdl.nodes) : mdl.nodes[n].mesh < Len(mdl.meshes)

\* Every index accessor lies in a buffer view for element indices.
IndexTargetsRight(mdl) ==
  \A m \in 1..Len(mdl.meshes) : \A q \in 1..Len(mdl.meshes[m].primitives) :
    LET indices == mdl.meshes[m].primitives[q].indices
    IN indices >= 0 =>
         At(mdl.bufferViews, At(mdl.accessors, indices).bufferView).target
           = "GL_ELEMENT_ARRAY_BUFFER"

\* drawNode is never entered for a node whose mesh index is out of range.
C12_NoVisitOutOfRange ==
  \A v \in 1..Len(visits) :
    At(model.nodes, visits[v].nodeIdx).mesh < Len(model.meshes)

\* No indexed draw reads its indices from a buffer view of another target.
C12_NoDrawWrongTarget ==
  \A d \in 1..Len(draws) :
    LET indices == At(At(model.meshes, draws[d].mesh).primitives,
                      draws[d].primIdx).indices
    IN indices >= 0 =>
         At(model.bufferViews, At(model.accessors, indices).bufferView).target
           = "GL_ELEMENT_ARRAY_BUFFER"

\* C12: a document with a node whose mesh index is out of range, or with an
\* index accessor in a buffer view of the wrong target, never gets as far as
\* drawScene, and no drawNode call or draw uses such an index.
C12_RejectedAtBindTime ==
  /\ calls.drawScene > 0 =>
       MeshIndicesInRange(model) /\ IndexTargetsRight(model)
  /\ C12_NoVisitOutOfRange
  /\ C12_NoDrawWrongTarget


(***************************************************************************)
(* C13: the vertex array objects.                                          *)
(***************************************************************************)

\* The attribute slot of each attribute name the viewer knows.
SlotOf(name) ==
  CASE name = "POSITION" -> 0
    [] name = "NORMAL" -> 1
    [] name = "TEXCOORD_0" -> 2

\* The object createVertexArrayObjects made for primitive p of mesh m: the
\* objects are made in the order of the meshes and of their primitives.
VaoFor(m, p) == glVaos[At(vertexAttributeObjectList, PrimitivesBefore(m) + p)]

\* The buffer object of the buffer view of accessor a.
BufferObjectOf(a) ==
  At(vertexBufferObjectList,
     At(model.bufferViews, At(model.accessors, a).bufferView).buffer)

\* C13: once createVertexArrayObjects has returned, the object of each
\* primitive enables exactly the slots 0, 1, 2 whose attribute POSITION,
\* NORMAL, TEXCOORD_0 the primitive has; each enabled slot reads the buffer
\* object of the accessor's buffer view, at accessor.byteOffset +
\* bufferView.byteOffset, with the buffer view's stride; the object has an
\* element buffer (that of the index accessor) exactly when the primitive
\* has indices; and there is one object per primitive, all distinct.
C13_VaoPerPrimitive ==
  VaosCreated =>
    /\ Len(vertexAttributeObjectList) = PrimitivesBefore(Len(model.meshes))
    /\ Len(glVaos) = PrimitivesBefore(Len(model.meshes))
    /\ \A i, j \in 1..Len(vertexAttributeObjectList) :
         vertexAttributeObjectList[i] = vertexAttributeObjectList[j] => i = j
    /\ \A m \in 0..(Len(model.meshes) - 1) :
         \A p \in 0..(PrimitiveCount(m) - 1) :
           LET primitive == At(At(model.meshes, m).primitives, p)
               vao == VaoFor(m, p)
           IN /\ DOMAIN vao.attribs =
                   {SlotOf(name) : name \in DOMAIN primitive.attributes
                                             \cap {"POSITION", "NORMAL", "TEXCOORD_0"}}
              /\ \A name \in DOMAIN primitive.attributes
                               \cap {"POSITION", "NORMAL", "TEXCOORD_0"} :
                   LET a == primitive.attributes[name]
                       accessor == At(model.accessors, a)
                       bufferView == At(model.bufferViews, accessor.bufferView)
                       pointer == vao.attribs[SlotOf(name)]
                   IN /\ pointer.buffer = BufferObjectOf(a)
                      /\ pointer.buffer \in 1..Len(glBuffers)
                      /\ pointer.byteOffset =
                           accessor.byteOffset + bufferView.byteOffset
                      /\ pointer.stride = bufferView.byteStride
              /\ (vao.elementBuffer # 0) <=> (primitive.indices >= 0)
              /\ primitive.indices >= 0 =>
                   vao.elementBuffer = BufferObjectOf(primitive.indices)

\* The objects exist for a document with an indexed primitive and with a
\* primitive that has texture coordinates at an offset inside a buffer view
\* that itself starts at an offset, and has no normals.
C13_Witness ==
  /\ VaosCreated
  /\ \E m \in 0..(Len(model.meshes) - 1) : \E p \in 0..(PrimitiveCount(m) - 1) :
       At(At(model.meshes, m).primitives, p).indices >= 0
  /\ \E m \in 0..(Len(model.meshes) - 1) : \E p \in 0..(PrimitiveCount(m) - 1) :
       LET primitive == At(At(model.meshes, m).primitives, p)
       IN /\ "TEXCOORD_0" \in DOMAIN primitive.attributes
          /\ "NORMAL" \notin DOMAIN primitive.attributes
          /\ At(model.accessors, primitive.attributes["TEXCOORD_0"]).byteOffset > 0
          /\ VaoFor(m, p).attribs[2].byteOffset >
               At(model.accessors, primitive.attributes["TEXCOORD_0"]).byteOffset


(***************************************************************************)
(* C14: samplers.                                                          *)
(***************************************************************************)

\* createTextureObjects has returned.
TexturesCreated == Loaded /\ pc \notin {"load", "createTextureObjects"}

\* The texture object made for texture t of the document.
ObjectOfTexture(t) == glTextures[At(textureObjects, t)]

\* A texture without sampler has the default values and no mipmaps.
DefaultsWithoutSampler ==
  \A t \in 0..(Len(model.textures) - 1) :
    At(model.textures, t).sampler < 0 =>
      LET object == ObjectOfTexture(t)
      IN /\ object.wrapS = "GL_REPEAT"
         /\ object.wrapT = "GL_REPEAT"
         /\ object.wrapR = "GL_REPEAT"
         /\ object.minFilter = "GL_LINEAR"
         /\ object.magFilter = "GL_LINEAR"
         /\ ~object.mipmaps

\* C14 as stated: a texture without sampler gets repeat, linear and no
\* mipmaps, and a texture with a sampler gets the five values of its sampler.
C14_SamplerValuesVerbatim ==
  TexturesCreated =>
    /\ DefaultsWithoutSampler
    /\ \A t \in 0..(Len(model.textures) - 1) :
         At(model.textures, t).sampler >= 0 =>
           LET object == ObjectOfTexture(t)
               sampler == At(model.samplers, At(model.textures, t).sampler)
           IN /\ object.wrapS = sampler.wrapS
              /\ object.wrapT = sampler.wrapT
              /\ object.wrapR = sampler.wrapR
              /\ object.minFilter = sampler.minFilter
              /\ object.magFilter = sampler.magFilter

\* C14, amended: a texture without sampler gets repeat, linear and no
\* mipmaps; a texture with a sampler gets the sampler's three wrap values and
\* its two filters, with linear in place of a filter the sampler leaves
\* unset, and mipmaps exactly when the sampler's minification filter is one
\* of the four mipmap filters.
C14_SamplerResolution ==
  TexturesCreated =>
    /\ DefaultsWithoutSampler
    /\ \A t \in 0..(Len(model.textures) - 1) :
         At(model.textures, t).sampler >= 0 =>
           LET object == ObjectOfTexture(t)
               sampler == At(model.samplers, At(model.textures, t).sampler)
           IN /\ object.wrapS = sampler.wrapS
              /\ object.wrapT = sampler.wrapT
              /\ object.wrapR = sampler.wrapR
              /\ object.minFilter =
                   IF sampler.minFilter = "-1" THEN "GL_LINEAR" ELSE sampler.minFilter
              /\ object.magFilter =
                   IF sampler.magFilter = "-1" THEN "GL_LINEAR" ELSE sampler.magFilter
              /\ object.mipmaps <=>
                   sampler.minFilter \in
                     {"GL_NEAREST_MIPMAP_NEAREST", "GL_NEAREST_MIPMAP_LINEAR",
                      "GL_LINEAR_MIPMAP_NEAREST", "GL_LINEAR_MIPMAP_LINEAR"}

\* The textures exist for a document with a texture without sampler and a
\* texture whose sampler has a mipmap filter.
C14_Witness ==
  /\ TexturesCreated
  /\ \E t \in 0..(Len(model.textures) - 1) : At(model.textures, t).sampler < 0
  /\ \E t \in 0..(Len(model.textures) - 1) :
       /\ At(model.textures, t).sampler >= 0
       /\ ObjectOfTexture(t).mipmaps


(***************************************************************************)
(* C15: the binding of a draw is a function of its material.               *)
(***************************************************************************)

\* C15: any two draws of a frame whose primitives have the same material
\* index are issued with the same texture on unit 0 and the same base-color
\* factor, whatever was drawn before each of them.
C15_BindingByMaterialOnly ==
  \A i, j \in 1..Len(draws) :
    draws[i].material = draws[j].material =>
      /\ draws[i].texture2D = draws[j].texture2D
      /\ draws[i].uBaseColorFactor = draws[j].uBaseColorFactor


(***************************************************************************)
(* C16: bindings at the end of the binder passes.                          *)
(***************************************************************************)

\* A create* function has just returned.
AfterCreatePass ==
  Loaded /\ pc \in {"whiteTexture", "createBufferObjects",
                    "createVertexArrayObjects", "setup"}

\* Unit 0 has no texture and the array-buffer binding is the default.
BindingsRestored == gl.texture2D = 0 /\ gl.arrayBuffer = 0

\* The create* functions leave the bindings restored.
C16_CreatePassesRestore == AfterCreatePass => BindingsRestored

\* C16: when a create* function has returned, and when drawScene has
\* returned (so also when the next frame starts), texture unit 0 has no
\* texture bound and the array-buffer binding is 0.
C16_BindingsRestoredAfterPass ==
  (AfterCreatePass \/ AfterDrawScene \/ (pc = "drawScene" /\ calls.drawScene > 0))
    => BindingsRestored


(***************************************************************************)
(* C17: composition of the transforms.                                     *)
(***************************************************************************)

\* The node that has n among its children, or -1 for a node without parent.
ParentOf(n) ==
  IF \E q \in 0..(Len(model.nodes) - 1) : n \in Range(At(model.nodes, q).children)
  THEN CHOOSE q \in 0..(Len(model.nodes) - 1) :
         n \in Range(At(model.nodes, q).children)
  ELSE -1

\* The product of the local transforms from the root above n down to n's
\* parent: the empty product for a root.
RECURSIVE ToWorldOfParent(_)
ToWorldOfParent(n) ==
  IF ParentOf(n) < 0 THEN <<>>
  ELSE ToWorldOfParent(ParentOf(n)) \o <<ParentOf(n)>>

\* C17: each drawNode call of the frame has as parent matrix the product of
\* the local transforms of the node's ancestors, from the root down (the
\* identity for a root of the default scene), and each draw is issued with
\* the model-view matrix view * (that product) * (the node's own transform);
\* for a chain of three nodes the leaf is drawn with view * T1 * T2 * T3.
C17_TransformsCompose ==
  /\ \A v \in 1..Len(visits) :
       /\ visits[v].parentMatrix = ToWorldOfParent(visits[v].nodeIdx)
       /\ visits[v].nodeIdx \in Range(SceneRoots(model)) =>
            visits[v].parentMatrix = <<>>
  /\ \A d \in 1..Len(draws) :
       draws[d].uModelViewMatrix =
         viewMatrix \o ToWorldOfParent(draws[d].nodeIdx) \o <<draws[d].nodeIdx>>

\* The leaf of a chain of three nodes has been drawn.
C17_Witness ==
  \E d \in 1..Len(draws) :
    /\ Len(ToWorldOfParent(draws[d].nodeIdx)) = 2
    /\ Len(draws[d].uModelViewMatrix) = 4


(***************************************************************************)
(* C18: the order of the traversal.                                        *)
(***************************************************************************)

IsPrefix(s, t) == Len(s) <= Len(t) /\ s = SubSeq(t, 1, Len(s))

\* The nodes of the trees below the listed nodes, depth first, each node
\* before its children, lists in the order the document gives them.
RECURSIVE Preorder(_)
Preorder(nodeList) ==
  IF nodeList = <<>> THEN <<>>
  ELSE <<Head(nodeList)>>
         \o Preorder(At(model.nodes, Head(nodeList)).children)
         \o Preorder(Tail(nodeList))

\* The roots of the default scene in the order listed; none without one.
ListedRoots ==
  IF model.defaultScene >= 0 THEN At(model.scenes, model.defaultScene).nodes
  ELSE <<>>

\* <<node, primitive>> for every primitive of the meshes of the listed
\* nodes, node by node, primitives in the order of the mesh.
RECURSIVE PrimitivesOf(_)
PrimitivesOf(nodeList) ==
  IF nodeList = <<>> THEN <<>>
  ELSE LET mesh == At(model.nodes, Head(nodeList)).mesh
       IN (IF mesh >= 0
           THEN [q \in 1..PrimitiveCount(mesh) |-> <<Head(nodeList), q - 1>>]
           ELSE <<>>)
          \o PrimitivesOf(Tail(nodeList))

VisitedNodes == [v \in 1..Len(visits) |-> visits[v].nodeIdx]

DrawnPrimitives == [d \in 1..Len(draws) |-> <<draws[d].nodeIdx, draws[d].primIdx>>]

\* C18: the drawNode calls of a frame are made in depth-first pre-order of
\* the forest below the listed roots, and the draws of the frame are the
\* primitives of the nodes in that same order: at any moment what has been
\* visited and drawn is a beginning of these sequences, and when drawScene
\* has returned it is all of them.
C18_DepthFirstPreorder ==
  Loaded =>
    /\ IsPrefix(VisitedNodes, Preorder(ListedRoots))
    /\ IsPrefix(DrawnPrimitives, PrimitivesOf(Preorder(ListedRoots)))
    /\ IsPrefix(DrawnPrimitives, PrimitivesOf(VisitedNodes))
    /\ AfterDrawScene =>
         /\ VisitedNodes = Preorder(ListedRoots)
         /\ DrawnPrimitives = PrimitivesOf(Preorder(ListedRoots))

\* drawScene has returned for a document with two roots, whose lists are not
\* in the order of the indices, where a first child has a child of its own;
\* the grandchild was drawn before the second child.
C18_Witness ==
  /\ AfterDrawScene
  /\ Len(ListedRoots) >= 2
  /\ \E n \in 1..Len(model.nodes) :
       LET children == model.nodes[n].children
       IN /\ Len(children) >= 2
          /\ children[1] > children[2]
          /\ At(model.nodes, children[1]).children # <<>>
          /\ \E d, e \in 1..Len(draws) :
               /\ d < e
               /\ draws[d].nodeIdx \in Range(At(model.nodes, children[1]).children)
               /\ draws[e].nodeIdx = children[2]


(***************************************************************************)
(* C19: the matrix uniforms.                                               *)
(***************************************************************************)

MatrixUniforms == {"uModelViewMatrix", "uModelViewProjMatrix", "uNormalMatrix"}

DrawOps == {"glDrawElements", "glDrawArrays"}

\* The places of the trace where uniform u was uploaded during visit v.
UploadsOf(u, v) == {i \in 1..Len(trace) : trace[i].op = u /\ trace[i].visit = v}

\* visit v is of a node with a mesh.
MeshVisit(v) == At(model.nodes, visits[v].nodeIdx).mesh >= 0

\* C19: in a frame, each of the three matrix uniforms is uploaded exactly
\* once for each call of drawNode on a node with a mesh and never for a node
\* without; a draw comes after the three uploads of its own call; and an
\* upload that comes after a draw belongs to a later call, so none falls
\* between the draws of one mesh and the last upload before a draw is that
\* of the draw's own node.
C19_MatricesOncePerNode ==
  /\ \A v \in 1..Len(visits) : \A u \in MatrixUniforms :
       Cardinality(UploadsOf(u, v)) = IF MeshVisit(v) THEN 1 ELSE 0
  /\ \A i \in 1..Len(trace) :
       trace[i].op \in MatrixUniforms => trace[i].visit \in 1..Len(visits)
  /\ \A i \in 1..Len(trace) :
       trace[i].op \in DrawOps =>
         /\ \A u \in MatrixUniforms :
              \E j \in UploadsOf(u, trace[i].visit) : j < i
         /\ LET before == {j \in 1..(i - 1) : trace[j].op \in MatrixUniforms}
                last == CHOOSE j \in before : \A k \in before : k <= j
            IN before # {} /\ trace[last].visit = trace[i].visit
         /\ \A j \in (i + 1)..Len(trace) :
              trace[j].op \in MatrixUniforms => trace[j].visit > trace[i].visit
  /\ Cardinality({i \in 1..Len(trace) : trace[i].op \in DrawOps}) = Len(draws)

\* drawScene has returned after two calls of drawNode on nodes with meshes,
\* one of them with a mesh of several primitives.
C19_Witness ==
  /\ AfterDrawScene
  /\ \E v, w \in 1..Len(visits) :
       /\ v < w
       /\ MeshVisit(v) /\ MeshVisit(w)
       /\ PrimitiveCount(At(model.nodes, visits[v].nodeIdx).mesh) >= 2
       /\ Cardinality({i \in 1..Len(trace) :
                         trace[i].op \in DrawOps /\ trace[i].visit = v}) >= 2


(***************************************************************************)
(* C20: the light uniforms.                                                *)
(***************************************************************************)

LightUniforms == {"uLightDirection", "uLightIntensity"}

\* The places of the trace where uniform u was uploaded.
LightUploads(u) == {i \in 1..Len(trace) : trace[i].op = u}

\* drawScene is running or has returned and the GUI has not run since.
FrameDrawn == pc \in {"roots", "gui", "flipImageYAxis", "writePng"}

\* C20: in a frame each light uniform is uploaded once if the program has it
\* and not at all otherwise, before any call of drawNode and before every
\* other upload and draw of the frame; the direction uploaded is the constant
\* (0,0,1) of the camera when the toggle is on and lightDirection taken to
\* view space when it is off, the intensity is lightIntensity.
C20_LightOncePerFrame ==
  /\ Cardinality(LightUploads("uLightDirection")) <= 1
  /\ Cardinality(LightUploads("uLightIntensity")) <= 1
  /\ \A i \in 1..Len(trace) :
       trace[i].op \in LightUniforms =>
         /\ trace[i].visit = 0
         /\ \A j \in 1..(i - 1) : trace[j].op \in LightUniforms
  /\ FrameDrawn =>
       /\ Cardinality(LightUploads("uLightDirection")) =
            IF lightDirectionLocation >= 0 THEN 1 ELSE 0
       /\ Cardinality(LightUploads("uLightIntensity")) =
            IF lightIntensityLocation >= 0 THEN 1 ELSE 0
       /\ \A i \in LightUploads("uLightDirection") :
            /\ trace[i].value =
                 IF isLightComingFromCamera THEN <<"camera", "(0,0,1)">>
                 ELSE <<"view", lightDirection>>
            /\ gl.uLightDirection = trace[i].value
       /\ \A i \in LightUploads("uLightIntensity") :
            /\ trace[i].value = <<lightIntensity>>
            /\ gl.uLightIntensity = lightIntensity

\* In a frame drawn with the toggle on, the direction of the camera was
\* uploaded and nodes have been visited and drawn since.
C20_Witness ==
  /\ pc = "roots"
  /\ isLightComingFromCamera
  /\ lightDirectionLocation >= 0
  /\ LightUploads("uLightDirection") = {1}
  /\ LightUploads("uLightIntensity") = {2}
  /\ visits # <<>>
  /\ draws # <<>>

\* A frame was drawn with a light direction the sliders gave.
C20_SliderDirectionDrawn ==
  /\ pc = "roots"
  /\ ~isLightComingFromCamera
  /\ lightDirection # "(1,1,1)"
  /\ LightUploads("uLightDirection") = {1}
  /\ draws # <<>>


(***************************************************************************)
(* C21: the texels of the fallback texture.                                *)
(***************************************************************************)

\* The white texture has been created.
WhiteTextureCreated ==
  Loaded /\ pc \notin {"load", "createTextureObjects", "whiteTexture"}

\* The number of components glTexImage2D reads from its pixel source for an
\* RGBA texture of the object's width and height.
ComponentsRead(object) == object.width * object.height * 4

\* The upload of the fallback texture reads only components the array white
\* holds.
C21_ReadsInsideSource ==
  WhiteTextureCreated =>
    \A c \in 1..ComponentsRead(glTextures[whiteTexture]) : c \in DOMAIN White

\* C21: the pixel source of the fallback texture, the array white, holds
\* width * height * 4 components for the width and height the texture is
\* created with, and every component the upload reads is one of them and is 1.
C21_FallbackTexelsWhite ==
  WhiteTextureCreated =>
    LET object == glTextures[whiteTexture]
    IN /\ object.pixels.from = "white"
       /\ Len(White) = ComponentsRead(object)
       /\ \A c \in 1..ComponentsRead(object) : c \in DOMAIN White /\ White[c] = 1


(***************************************************************************)
(* C22: termination of the traversal and the nodes it visits.              *)
(***************************************************************************)

\* The nodes reachable from the nodes of S through the lists of children.
RECURSIVE ReachableFrom(_)
ReachableFrom(S) ==
  LET next == S \cup UNION {Range(At(model.nodes, n).children) : n \in S}
  IN IF next = S THEN S ELSE ReachableFrom(next)

\* The nodes reachable from the roots of the default scene.
Reachable == ReachableFrom(Range(ListedRoots))

\* How often node n is listed, as a child of a node or as a root of the
\* default scene.
Listings(n) ==
  Cardinality({<<q, i>> \in (1..Len(model.nodes)) \X (1..Len(model.nodes)) :
                 /\ i <= Len(model.nodes[q].children)
                 /\ model.nodes[q].children[i] = n})
  + Cardinality({i \in 1..Len(ListedRoots) : ListedRoots[i] = n})

\* The nodes form a forest: no node is listed twice and none is its own
\* descendant.
IsForest ==
  \A n \in 0..(Len(model.nodes) - 1) :
    /\ Listings(n) <= 1
    /\ n \notin ReachableFrom(Range(At(model.nodes, n).children))

\* The primitives of the meshes of the nodes of S.
RECURSIVE PrimitiveSum(_)
PrimitiveSum(S) ==
  IF S = {} THEN 0
  ELSE LET n == CHOOSE x \in S : TRUE
           mesh == At(model.nodes, n).mesh
       IN (IF mesh >= 0 THEN PrimitiveCount(mesh) ELSE 0) + PrimitiveSum(S \ {n})

\* What the traversal of the frame has done so far: it grows with every
\* step of drawNode and of the loop over the roots.
Progress ==
  4 * Len(visits) + Len(draws) - Len(stack)
  + (IF stack # <<>> /\ Top.at = "entry" THEN 2 ELSE 0)

\* The nodes visited in the frame, and what holds of them at every moment.
VisitsWithinReach ==
  LET reachable == Reachable
      primitives == PrimitiveSum(reachable)
      visited == {visits[v].nodeIdx : v \in 1..Len(visits)}
  IN /\ visited \subseteq reachable
     /\ Cardinality(visited) = Len(visits)
     /\ Len(stack) <= Len(model.nodes)
     /\ Progress <= 4 * Cardinality(reachable) + primitives
     /\ pc = "roots" =>
          ENABLED (DrawRoot \/ DrawNodeEnter \/ DrawPrimitive \/ DrawChild
                     \/ DrawNodeReturn \/ DrawSceneEnd)
     /\ AfterDrawScene =>
          /\ visited = reachable
          /\ Len(draws) = primitives

\* C22: for a document whose nodes form a forest, the traversal of a frame
\* ends: each of its steps raises a measure that the document bounds, and
\* from no point of it is there no next step; it never calls drawNode for a
\* node that is not reachable from the roots of the default scene, nor twice
\* for one node; and when drawScene returns every reachable node has been
\* visited once and the draws number the primitives of their meshes.
C22_TraversalTerminates ==
  /\ []((Loaded /\ IsForest) => VisitsWithinReach)
  /\ [][(pc = "roots" /\ pc' = "roots" /\ IsForest) => Progress' > Progress]_vars

\* drawScene has returned for a document with mesh-bearing nodes that are
\* not reachable from the default scene, after visiting a root and its child.
C22_Witness ==
  /\ AfterDrawScene
  /\ IsForest
  /\ Len(visits) >= 2
  /\ draws # <<>>
  /\ \E n \in 0..(Len(model.nodes) - 1) :
       n \notin Reachable /\ At(model.nodes, n).mesh >= 0

=============================================================================
